---- MODULE Spec2Model ----
(***************************************************************************)
(* Dovetail joint calculator (DovetailCalculator) and its 3-D preview      *)
(* (Preview3D).                                                            *)
(*                                                                         *)
(* Numbers.  The program computes in IEEE doubles; the model computes in   *)
(* exact rationals <<n, d>> (d > 0, lowest terms).  Math.atan followed by  *)
(* Math.tan is represented by the tangent itself.                          *)
(*                                                                         *)
(* Revisions.  src/ holds two revisions of Preview3D: src/unnamed/part_000 *)
(* (animationSpeed 0.3, exploded target depth * 3) and the earlier         *)
(* src/src/preview-3d.ts lines 114-441 (step 0.2, exploded target          *)
(* depth * 2).  The variable revision says which one is running.           *)
(***************************************************************************)
EXTENDS Integers, Sequences, FiniteSets, TLC

VARIABLES
  revision,      \* which Preview3D revision is loaded: "part_000" | "preview-3d"
  calculator,    \* DovetailCalculator @state fields
  localStorage,  \* window.localStorage: the items stored, by key
  props,         \* Preview3D @property fields
  pinGroup,      \* Preview3D.pinGroup.children
  tailGroup,     \* Preview3D.tailGroup.children
  assembled,     \* Preview3D.assembled
  positionZ,     \* Preview3D.tailGroup.position.z
  lastRender,    \* how the last renderWorkpiece ended: "none" | "completed" | "failed"
  lastOp         \* the Preview3D method that ran last

vars == <<revision, calculator, localStorage, props, pinGroup, tailGroup,
          assembled, positionZ, lastRender, lastOp>>

----------------------------------------------------------------------------
(* Exact rational arithmetic *)

Abs(n) == IF n < 0 THEN -n ELSE n

RECURSIVE GCD(_, _)
GCD(a, b) == IF b = 0 THEN a ELSE GCD(b, a % b)

\* n / d in lowest terms with a positive denominator, g = gcd(|n|, |d|)
Reduce(n, d, g) ==
  IF d < 0 THEN <<(-n) \div g, (-d) \div g>> ELSE <<n \div g, d \div g>>

\* The fraction n / d for every pair of integers; a function, so that its
\* arguments are values when the fraction is reduced.
Fraction == [n \in Int, d \in Int |-> Reduce(n, d, GCD(Abs(n), Abs(d)))]

Rat(n, d) == Fraction[n, d]

RInt(n) == <<n, 1>>

RAdd(a, b) == Rat(a[1] * b[2] + b[1] * a[2], a[2] * b[2])
RSub(a, b) == Rat(a[1] * b[2] - b[1] * a[2], a[2] * b[2])
RMul(a, b) == Rat(a[1] * b[1], a[2] * b[2])
RDiv(a, b) == Rat(a[1] * b[2], a[2] * b[1])
RNeg(a) == <<-a[1], a[2]>>
RLt(a, b) == a[1] * b[2] < b[1] * a[2]
RLe(a, b) == a[1] * b[2] <= b[1] * a[2]

\* Math.floor: the greatest integer <= a (\div rounds toward minus infinity)
Floor(a) == a[1] \div a[2]

----------------------------------------------------------------------------
(* DovetailCalculator: constants and derived layout (getters).  A getter    *)
(* takes the calculator's fields c instead of reading `this`.               *)

\* Faulty variant: the factors listed in the reverse order.
DIVISION_FACTOR_Reversed ==
  [fine |-> Rat(1, 2), medium |-> Rat(2, 3), coarse |-> RInt(1)]

DIVISION_FACTOR ==
  [fine |-> RInt(1), medium |-> Rat(2, 3), coarse |-> Rat(1, 2)]

Division == {"fine", "medium", "coarse"}

WORKPIECE_WIDTH_DEFAULT == 100
WORKPIECE_HEIGHT_DEFAULT == 15
DIVISION_DEFAULT == "medium"
TAIL_PIN_RATIO_DEFAULT == 2

\* Faulty variant: Math.ceil in place of Math.floor.
tailsCount_Ceil(c) ==
  -Floor(RNeg(RMul(RDiv(c.workpieceWidth, c.workpieceHeight),
                   DIVISION_FACTOR[c.division])))

tailsCount(c) ==
  Floor(RMul(RDiv(c.workpieceWidth, c.workpieceHeight),
             DIVISION_FACTOR[c.division]))

\* Faulty variant: the closing pin is not counted.
pinsCount_NoClosingPin(c) == tailsCount(c)

pinsCount(c) == tailsCount(c) + 1

partsCount(c) ==
  LET pinParts == RInt(pinsCount(c))
      tailParts == RMul(RInt(tailsCount(c)), c.tailPinRatio)
  IN  RAdd(pinParts, tailParts)

partWidth(c) == RDiv(c.workpieceWidth, partsCount(c))

pinWidth(c) == RMul(partWidth(c), RInt(1))

\* Faulty variant: the default ratio in place of the ratio set in the form.
tailWidth_DefaultRatio(c) == RMul(partWidth(c), RInt(TAIL_PIN_RATIO_DEFAULT))

tailWidth(c) == RMul(partWidth(c), c.tailPinRatio)

\* Faulty variant: the tangent taken at 3 heights in place of 2.5.
angle_AtBottom(c) ==
  RDiv(RMul(RInt(3), c.workpieceHeight), RDiv(tailWidth(c), RInt(2)))

\* The angle is held as its tangent: Math.atan(t) is kept as t.
angle(c) ==
  RDiv(RMul(Rat(5, 2), c.workpieceHeight), RDiv(tailWidth(c), RInt(2)))

\* Math.tan(this.angle) is the tangent held by angle(c).
tailMarkOffset(c) ==
  RSub(RDiv(RMul(RInt(3), c.workpieceHeight), angle(c)),
       RDiv(tailWidth(c), RInt(2)))

\* The flat diagram: the tail board spans y in [0, workpieceTop], the pin
\* board y in [workpieceTop, workpieceBottom].
workpieceTop(c) == RMul(RInt(2), c.workpieceHeight)

workpieceBottom(c) == RAdd(workpieceTop(c), c.workpieceHeight)

\* The path M apex L left right apex of one dovetail triangle.
renderTail(c, offset, triangleWidth) ==
  [apex |-> [x |-> RAdd(offset, RDiv(triangleWidth, RInt(2))), y |-> RInt(0)],
   left |-> [x |-> offset, y |-> workpieceBottom(c)],
   right |-> [x |-> RAdd(offset, triangleWidth), y |-> workpieceBottom(c)]]

\* new Array(tailsCount).map((_, i) => renderTail(...)), i = 0 .. tailsCount - 1;
\* new Array throws a RangeError when tailsCount is negative
renderTails(c) ==
  IF tailsCount(c) < 0 THEN "RangeError"
  ELSE [k \in 1..tailsCount(c) |->
          renderTail(c,
                     RSub(RAdd(RMul(RInt(k - 1),
                                    RAdd(pinWidth(c), tailWidth(c))),
                               pinWidth(c)),
                          tailMarkOffset(c)),
                     RAdd(tailWidth(c), RMul(RInt(2), tailMarkOffset(c))))]

----------------------------------------------------------------------------
(* DovetailCalculator: String, Number and the stored values.  A text is the *)
(* sequence of its characters.                                              *)

WORKPIECE_WIDTH_KEY == "workpieceWidth"
WORKPIECE_HEIGHT_KEY == "workpieceHeight"
DIVISION_KEY == "division"
TAIL_PIN_RATIO_KEY == "tailPinRatio"

Digit == <<"0", "1", "2", "3", "4", "5", "6", "7", "8", "9">>

\* the decimal digits of a natural number, the leading one first
RECURSIVE Digits(_)
Digits(n) ==
  IF n < 10 THEN <<Digit[n + 1]>>
  ELSE Append(Digits(n \div 10), Digit[(n % 10) + 1])

\* the digits after the point of r / d, 0 <= r < d, for a fraction that ends
RECURSIVE FractionDigits(_, _)
FractionDigits(r, d) ==
  IF r = 0 THEN <<>>
  ELSE <<Digit[((r * 10) \div d) + 1]>> \o FractionDigits((r * 10) % d, d)

\* String(value) of a number: sign, integer part, and the fraction if any
String(value) ==
  (IF value[1] < 0 THEN <<"-">> ELSE <<>>)
    \o Digits(Abs(value[1]) \div value[2])
    \o (IF Abs(value[1]) % value[2] = 0 THEN <<>>
        ELSE <<".">> \o FractionDigits(Abs(value[1]) % value[2], value[2]))

\* the number written by a sequence of digits; 0 for none
RECURSIVE DigitsValue(_)
DigitsValue(digits) ==
  IF digits = <<>> THEN 0
  ELSE DigitsValue(SubSeq(digits, 1, Len(digits) - 1)) * 10
         + (CHOOSE v \in 0..9 : Digit[v + 1] = digits[Len(digits)])

\* where the decimal point of a text is; Len(text) + 1 if it has none
RECURSIVE PointAt(_, _)
PointAt(text, k) ==
  IF k > Len(text) \/ text[k] = "." THEN k ELSE PointAt(text, k + 1)

\* the unsigned decimal text with its point at position at
Decimal(text, at) ==
  Rat(DigitsValue(SubSeq(text, 1, at - 1) \o SubSeq(text, at + 1, Len(text))),
      10 ^ (IF at > Len(text) THEN 0 ELSE Len(text) - at))

\* Number(text) of the value of a number input: a decimal with an optional
\* sign, or the empty text, which is 0
Number(text) ==
  IF text # <<>> /\ text[1] = "-"
  THEN RNeg(Decimal(Tail(text), PointAt(Tail(text), 1)))
  ELSE Decimal(text, PointAt(text, 1))

\* localStorage is the function from the keys that hold an item to the items
setItem(storage, key, text) ==
  [k \in DOMAIN storage \cup {key} |-> IF k = key THEN text ELSE storage[k]]

\* Faulty variant: the value is not stored.
storeValue_NotStored(storage, key, value) == storage

\* storeValue of a number
storeValue(storage, key, value) == setItem(storage, key, String(value))

\* storeValue of a division: String of a string is the string itself
storeDivision(storage, key, division) == setItem(storage, key, division)

\* localStorage.getItem(key) ?? String(defaultValue), for a number
readValue(storage, key, defaultValue) ==
  IF key \in DOMAIN storage THEN storage[key] ELSE String(defaultValue)

\* localStorage.getItem(key) ?? String(defaultValue), for a division
readDivision(storage, key, defaultValue) ==
  IF key \in DOMAIN storage THEN storage[key] ELSE defaultValue

(* The handlers, as maps of cs = [calculator, localStorage]; value is       *)
(* the number passed, or Number of the input's value.                       *)

workpieceWidthChanged(cs, value) ==
  [calculator |-> [cs.calculator EXCEPT !.workpieceWidth = value],
   localStorage |-> storeValue(cs.localStorage, WORKPIECE_WIDTH_KEY, value)]

workpieceHeightChanged(cs, value) ==
  [calculator |-> [cs.calculator EXCEPT !.workpieceHeight = value],
   localStorage |-> storeValue(cs.localStorage, WORKPIECE_HEIGHT_KEY, value)]

divisionChanged(cs, division) ==
  [calculator |-> [cs.calculator EXCEPT !.division = division],
   localStorage |-> storeDivision(cs.localStorage, DIVISION_KEY, division)]

tailPinRatioChanged(cs, value) ==
  [calculator |-> [cs.calculator EXCEPT !.tailPinRatio = value],
   localStorage |-> storeValue(cs.localStorage, TAIL_PIN_RATIO_KEY, value)]

\* reset(): the four handlers called with the defaults, in this order
resetDone(cs) ==
  tailPinRatioChanged(
    divisionChanged(
      workpieceHeightChanged(
        workpieceWidthChanged(cs, RInt(WORKPIECE_WIDTH_DEFAULT)),
        RInt(WORKPIECE_HEIGHT_DEFAULT)),
      DIVISION_DEFAULT),
    RInt(TAIL_PIN_RATIO_DEFAULT))

\* the fields as the constructor sets them from the stored items
constructed(storage) ==
  [workpieceWidth |->
     Number(readValue(storage, WORKPIECE_WIDTH_KEY,
                      RInt(WORKPIECE_WIDTH_DEFAULT))),
   workpieceHeight |->
     Number(readValue(storage, WORKPIECE_HEIGHT_KEY,
                      RInt(WORKPIECE_HEIGHT_DEFAULT))),
   division |-> readDivision(storage, DIVISION_KEY, DIVISION_DEFAULT),
   tailPinRatio |->
     Number(readValue(storage, TAIL_PIN_RATIO_KEY,
                      RInt(TAIL_PIN_RATIO_DEFAULT)))]

----------------------------------------------------------------------------
(* Preview3D: getters.  p is the record of @property fields.                *)

Revisions == {"part_000", "preview-3d"}

\* scale = 0.1 in part_000; the earlier revision divides by 10
scale == Rat(1, 10)

\* animationSpeed = 0.3 in part_000; the earlier revision steps by 0.2
animationSpeed(rev) == IF rev = "part_000" THEN Rat(3, 10) ELSE Rat(2, 10)

\* the exploded target is depth * 3 in part_000, depth * 2 before
explodedFactor(rev) == IF rev = "part_000" THEN RInt(3) ELSE RInt(2)

width(p) == RMul(p.workpieceWidth, scale)

height(rev, p) ==
  RMul(width(p), IF rev = "part_000" THEN Rat(6, 10) ELSE Rat(7, 10))

depth(p) == RMul(p.workpieceHeight, scale)

cornerOffset(p) == RMul(p.tailMarkOffset, scale)

----------------------------------------------------------------------------
(* The values the model draws its inputs from *)

\* Bound of the model: widths typed into the form are 25, 50, ... mm
MaxWidthSteps == 4

\* Values typed into the form.  Number(input.value) takes any number: the
\* negative width is accepted although the input states min="1".
Widths == {RInt(25 * k) : k \in 1..MaxWidthSteps} \cup {RInt(-25)}
Heights == {Rat(25, 2), RInt(15)}
Ratios == {Rat(3, 2), RInt(2), RInt(12)}

\* The texts typed into the number inputs: the form's values as String
\* writes them, and one written with a needless fraction.
WidthTexts == {String(w) : w \in Widths} \cup {<<"5", "0", ".", "0">>}
HeightTexts == {String(h) : h \in Heights}
RatioTexts == {String(r) : r \in Ratios}

\* What localStorage holds when the page loads: nothing, or the items an
\* earlier visit has left.
NoItems == [k \in {} |-> <<>>]

InitialStorages ==
  {NoItems,
   storeValue(storeValue(NoItems, WORKPIECE_WIDTH_KEY, RInt(50)),
              TAIL_PIN_RATIO_KEY, Rat(3, 2))}

\* The layout the calculator hands to <dt-preview-3d> when it renders.
PreviewProps(c) ==
  [workpieceWidth |-> c.workpieceWidth,
   workpieceHeight |-> c.workpieceHeight,
   tailsCount |-> tailsCount(c),
   pinWidth |-> pinWidth(c),
   tailWidth |-> tailWidth(c),
   tailMarkOffset |-> tailMarkOffset(c)]

\* The calculator's states over the form's values, and their layouts
CalcSpace ==
  [workpieceWidth : Widths, workpieceHeight : Heights, division : Division,
   tailPinRatio : Ratios]

\* Preview3D's property values as constructed
InitialProps ==
  [workpieceWidth |-> RInt(0), workpieceHeight |-> RInt(0),
   tailsCount |-> 0, pinWidth |-> RInt(0), tailWidth |-> RInt(0),
   tailMarkOffset |-> RInt(0)]

PropsSpace == {PreviewProps(c) : c \in CalcSpace} \cup {InitialProps}

----------------------------------------------------------------------------
(* Preview3D: the part builder.  A group is the sequence of its children;   *)
(* g is the pair of groups [pinGroup, tailGroup].                           *)

Point(px, py) == [x |-> px, y |-> py]

\* Faulty variant: only the pin group is cleared.
clearGroups_PinsOnly(g) == [pinGroup |-> <<>>, tailGroup |-> g.tailGroup]

clearGroups(g) == [pinGroup |-> <<>>, tailGroup |-> <<>>]

addBoards(rev, p, g) ==
  [pinGroup |-> Append(g.pinGroup,
                       [type |-> "box",
                        size |-> <<width(p), height(rev, p), depth(p)>>,
                        material |-> "pinMaterial"]),
   tailGroup |-> Append(g.tailGroup,
                        [type |-> "box",
                         size |-> <<width(p), height(rev, p), depth(p)>>,
                         material |-> "tailMaterial"])]

initializePin(xOffset, yOffset, centerLineOffset) ==
  [bottomLeft |-> Point(RNeg(xOffset), RAdd(RNeg(centerLineOffset), yOffset)),
   topLeft |-> Point(RNeg(xOffset), RAdd(centerLineOffset, yOffset)),
   bottomRight |-> Point(RInt(0), RInt(0)),
   topRight |-> Point(RInt(0), RInt(0))]

finalizePin(p, pin, markLeft, xOffset, yOffset, centerLineOffset) ==
  [pin EXCEPT
     !.topRight = Point(RSub(RAdd(markLeft, cornerOffset(p)), xOffset),
                        RAdd(centerLineOffset, yOffset)),
     !.bottomRight = Point(RSub(RSub(markLeft, cornerOffset(p)), xOffset),
                           RAdd(RNeg(centerLineOffset), yOffset))]

\* Faulty variant: the two corners take each other's cornerOffset sign.
updatePinForNextCycle_SignsSwapped(p, pin, markRight, xOffset, yOffset, centerLineOffset) ==
  [pin EXCEPT
     !.bottomLeft = Point(RSub(RSub(markRight, cornerOffset(p)), xOffset),
                          RSub(centerLineOffset, yOffset)),
     !.topLeft = Point(RSub(RAdd(markRight, cornerOffset(p)), xOffset),
                       RAdd(centerLineOffset, yOffset))]

updatePinForNextCycle(p, pin, markRight, xOffset, yOffset, centerLineOffset) ==
  [pin EXCEPT
     !.bottomLeft = Point(RSub(RAdd(markRight, cornerOffset(p)), xOffset),
                          RSub(centerLineOffset, yOffset)),
     !.topLeft = Point(RSub(RSub(markRight, cornerOffset(p)), xOffset),
                       RAdd(centerLineOffset, yOffset))]

finalizeLastPin(p, pin, xOffset, yOffset, centerLineOffset) ==
  [pin EXCEPT
     !.topRight = Point(RSub(width(p), xOffset),
                        RAdd(centerLineOffset, yOffset)),
     !.bottomRight = Point(RSub(width(p), xOffset),
                           RAdd(RNeg(centerLineOffset), yOffset))]

createTailPart(p, markLeft, markRight, xOffset, yOffset, centerLineOffset) ==
  [bottomLeft |-> Point(RSub(RSub(markLeft, cornerOffset(p)), xOffset),
                        RAdd(RNeg(centerLineOffset), yOffset)),
   topLeft |-> Point(RSub(RAdd(markLeft, cornerOffset(p)), xOffset),
                     RAdd(centerLineOffset, yOffset)),
   bottomRight |-> Point(RSub(RAdd(markRight, cornerOffset(p)), xOffset),
                         RAdd(RNeg(centerLineOffset), yOffset)),
   topRight |-> Point(RSub(RSub(markRight, cornerOffset(p)), xOffset),
                      RAdd(centerLineOffset, yOffset))]

\* Shape.moveTo / lineTo: the path walked, closed on its first point
createPartShape(part) ==
  <<part.bottomLeft, part.topLeft, part.topRight, part.bottomRight,
    part.bottomLeft>>

\* ExtrudeGeometry of the shape, depth deep
createPartMesh(p, shape, material) ==
  [type |-> "extrude", shape |-> shape, depth |-> depth(p),
   material |-> material, positionZ |-> RInt(0)]

\* The mesh holds a copy of the part's corners as they are at this call.
addPartToBoard(rev, p, board, part, material) ==
  Append(board,
         [createPartMesh(p, createPartShape(part), material)
            EXCEPT !.positionZ = RDiv(height(rev, p), RInt(2))])

(* The for loop of addParts.  Its running state s is the pin being built    *)
(* and the two groups; each statement of the body maps s to the next s.     *)
(* s also keeps a record of the run, which the program does not hold:       *)
(*   iterations  how many times the body has run,                           *)
(*   closedAt    the values of i at which the closing step has run,         *)
(*   written     currentPin with every corner that has not been assigned    *)
(*               since the pin was last added to the board marked Unwritten,*)
(*   pinsOwn     per pin added, whether none of its corners was Unwritten.  *)

markLeft(p, i) ==
  RMul(RAdd(RMul(RInt(i), RAdd(p.pinWidth, p.tailWidth)), p.pinWidth), scale)

markRight(p, i) ==
  RMul(RAdd(RAdd(RMul(RInt(i), RAdd(p.pinWidth, p.tailWidth)), p.pinWidth),
            p.tailWidth),
       scale)

Corners == {"bottomLeft", "topLeft", "bottomRight", "topRight"}

\* the mark of a corner not assigned: no number has the denominator 0
Unwritten == Point(<<0, 0>>, <<0, 0>>)

NothingWritten == [corner \in Corners |-> Unwritten]

\* this.finalizePin(currentPin, markLeft, ...)
stepFinalizePin(p, i, s, xOffset, yOffset, centerLineOffset) ==
  [s EXCEPT
     !.currentPin =
       finalizePin(p, @, markLeft(p, i), xOffset, yOffset, centerLineOffset),
     !.written =
       finalizePin(p, @, markLeft(p, i), xOffset, yOffset, centerLineOffset)]

\* this.addPartToBoard(this.pinGroup, currentPin, this.pinMaterial)
stepAddPin(rev, p, s) ==
  [s EXCEPT
     !.pinGroup = addPartToBoard(rev, p, @, s.currentPin, "pinMaterial"),
     !.pinsOwn = Append(@, \A corner \in Corners : s.written[corner] # Unwritten),
     !.written = NothingWritten]

\* this.updatePinForNextCycle(currentPin, markRight, ...)
stepUpdatePin(p, i, s, xOffset, yOffset, centerLineOffset) ==
  [s EXCEPT
     !.currentPin =
       updatePinForNextCycle(p, @, markRight(p, i), xOffset, yOffset,
                             centerLineOffset),
     !.written =
       updatePinForNextCycle(p, @, markRight(p, i), xOffset, yOffset,
                             centerLineOffset)]

\* this.finalizeLastPin(currentPin, ...), the closing step
stepFinalizeLastPin(p, i, s, xOffset, yOffset, centerLineOffset) ==
  [s EXCEPT
     !.currentPin = finalizeLastPin(p, @, xOffset, yOffset, centerLineOffset),
     !.written = finalizeLastPin(p, @, xOffset, yOffset, centerLineOffset),
     !.closedAt = Append(@, i)]

\* Faulty variant: the closing step is taken in every iteration.
stepLastPin_EveryIteration(rev, p, i, s, xOffset, yOffset, centerLineOffset) ==
  stepAddPin(rev, p,
             stepFinalizeLastPin(p, i, s, xOffset, yOffset, centerLineOffset))

\* if (i === this.tailsCount - 1) { finalizeLastPin; addPartToBoard }
stepLastPin(rev, p, i, s, xOffset, yOffset, centerLineOffset) ==
  IF i = p.tailsCount - 1
  THEN stepAddPin(rev, p,
         stepFinalizeLastPin(p, i, s, xOffset, yOffset, centerLineOffset))
  ELSE s

\* createTailPart and addPartToBoard(this.tailGroup, tailPart, ...)
stepAddTail(rev, p, i, s, xOffset, yOffset, centerLineOffset) ==
  [s EXCEPT
     !.tailGroup =
       addPartToBoard(rev, p, @,
                      createTailPart(p, markLeft(p, i), markRight(p, i),
                                     xOffset, yOffset, centerLineOffset),
                      "tailMaterial"),
     !.iterations = @ + 1]

\* one iteration: the statements of the loop body in their order
addPartsBody(rev, p, i, s, xOffset, yOffset, centerLineOffset) ==
  stepAddTail(rev, p, i,
    stepLastPin(rev, p, i,
      stepUpdatePin(p, i,
        stepAddPin(rev, p,
          stepFinalizePin(p, i, s, xOffset, yOffset, centerLineOffset)),
        xOffset, yOffset, centerLineOffset),
      xOffset, yOffset, centerLineOffset),
    xOffset, yOffset, centerLineOffset)

RECURSIVE addPartsLoop(_, _, _, _, _, _, _)
addPartsLoop(rev, p, i, s, xOffset, yOffset, centerLineOffset) ==
  IF ~(i < p.tailsCount) THEN s
  ELSE addPartsLoop(rev, p, i + 1,
                    addPartsBody(rev, p, i, s, xOffset, yOffset,
                                 centerLineOffset),
                    xOffset, yOffset, centerLineOffset)

\* the loop entered with the pin of initializePin and the given groups; the
\* right corners of that pin are the placeholders { x: 0, y: 0 }
addPartsFrom(rev, p, g, xOffset, yOffset, centerLineOffset) ==
  addPartsLoop(rev, p, 0,
               [currentPin |-> initializePin(xOffset, yOffset, centerLineOffset),
                pinGroup |-> g.pinGroup, tailGroup |-> g.tailGroup,
                iterations |-> 0, closedAt |-> <<>>, pinsOwn |-> <<>>,
                written |->
                  [initializePin(xOffset, yOffset, centerLineOffset)
                     EXCEPT !.bottomRight = Unwritten, !.topRight = Unwritten]],
               xOffset, yOffset, centerLineOffset)

\* addParts on empty groups: the polygons it adds, in the order it adds them.
builtParts(rev, p) ==
  addPartsFrom(rev, p, [pinGroup |-> <<>>, tailGroup |-> <<>>],
               RDiv(width(p), RInt(2)),
               RDiv(depth(p), RInt(2)),
               IF rev = "part_000"
               THEN RDiv(depth(p), RInt(2))
               ELSE RDiv(RDiv(p.workpieceHeight, RInt(10)), RInt(2)))

\* builtParts tabulated over the layouts the calculator can produce, so that
\* the polygons of a layout are computed once.
builtPartsTable ==
  [rev \in Revisions |-> [p \in PropsSpace |-> builtParts(rev, p)] @@ <<>>]

appendParts(g, built) ==
  [pinGroup |-> g.pinGroup \o built.pinGroup,
   tailGroup |-> g.tailGroup \o built.tailGroup]

\* addParts appends its polygons to the groups, which hold the boards.
addParts(rev, p, g) == appendParts(g, builtPartsTable[rev][p])

renderWorkpiece(rev, p, g) == addParts(rev, p, addBoards(rev, p, clearGroups(g)))

\* if (this.assembled && z > 0) { z -= animationSpeed; if (z < 0) z = 0 }
animateDown(rev, asm, z, down) ==
  IF asm /\ RLt(RInt(0), z)
  THEN (IF RLt(down, RInt(0)) THEN RInt(0) ELSE down)
  ELSE z

\* if (!this.assembled && z < this.depth * 3) z += animationSpeed
animateUp(rev, p, asm, z) ==
  IF ~asm /\ RLt(z, RMul(depth(p), explodedFactor(rev)))
  THEN RAdd(z, animationSpeed(rev))
  ELSE z

\* Faulty variant: the exploding step is taken whatever the mode.
animateUp_ModeIgnored(rev, p, asm, z) ==
  IF RLt(z, RMul(depth(p), explodedFactor(rev)))
  THEN RAdd(z, animationSpeed(rev))
  ELSE z

\* Faulty variant: both steps of a frame ignore the mode.
animateTailBoard_ModeIgnored(rev, p, asm, z) ==
  animateUp_ModeIgnored(rev, p, asm,
                        animateDown(rev, asm, z, RSub(z, animationSpeed(rev))))

\* Faulty variant: the board is put at its target at once.
animateTailBoard_Snap(rev, p, asm, z) ==
  IF asm THEN RInt(0) ELSE RMul(depth(p), explodedFactor(rev))

\* tailGroup.position.z after one frame
animateTailBoard(rev, p, asm, z) ==
  animateUp(rev, p, asm,
            animateDown(rev, asm, z, RSub(z, animationSpeed(rev))))

----------------------------------------------------------------------------
(* The state machine *)

Groups == [pinGroup |-> pinGroup, tailGroup |-> tailGroup]

setGroups(g) ==
  /\ pinGroup' = g.pinGroup
  /\ tailGroup' = g.tailGroup

\* Preview3D.updated(), run by Lit once the properties have changed.
updated(p) ==
  /\ props' = p
  /\ setGroups(renderWorkpiece(revision, p, Groups))
  /\ lastRender' = "completed"
  /\ lastOp' = "updated"

RerenderWith(p) ==
  IF p = props
  THEN UNCHANGED <<props, pinGroup, tailGroup, lastRender, lastOp>>
  ELSE updated(p)

\* The calculator re-renders after a @state change and passes the layout on;
\* the preview's updated() runs only if a property has changed.
Rerender(c) == RerenderWith(PreviewProps(c))

\* The calculator and the stored items before a handler runs, and after.
Current == [calculator |-> calculator, localStorage |-> localStorage]

Becomes(cs) ==
  /\ calculator' = cs.calculator
  /\ localStorage' = cs.localStorage
  /\ Rerender(cs.calculator)

Init ==
  /\ revision \in Revisions
  /\ localStorage \in InitialStorages
  /\ calculator = constructed(localStorage)
  /\ props = InitialProps
  /\ pinGroup = <<>>
  /\ tailGroup = <<>>
  /\ assembled = TRUE
  /\ positionZ = RInt(0)
  /\ lastRender = "none"
  /\ lastOp = "constructor"

\* firstUpdated() renders the workpiece and updated() renders it again.
firstUpdatedWith(p) ==
  /\ props' = p
  /\ setGroups(renderWorkpiece(revision, p,
                               renderWorkpiece(revision, p, Groups)))

\* The first update: the properties arrive, then firstUpdated() and
\* updated() run.
firstUpdated ==
  /\ lastRender = "none"
  /\ firstUpdatedWith(PreviewProps(calculator))
  /\ lastRender' = "completed"
  /\ lastOp' = "firstUpdated"
  /\ UNCHANGED <<revision, calculator, localStorage, assembled, positionZ>>

handleWorkpieceWidthChange ==
  /\ lastRender # "none"
  /\ \E text \in WidthTexts :
       Becomes(workpieceWidthChanged(Current, Number(text)))
  /\ UNCHANGED <<revision, assembled, positionZ>>

handleWorkpieceHeightChange ==
  /\ lastRender # "none"
  /\ \E text \in HeightTexts :
       Becomes(workpieceHeightChanged(Current, Number(text)))
  /\ UNCHANGED <<revision, assembled, positionZ>>

handleDivisionChange ==
  /\ lastRender # "none"
  /\ \E division \in Division :
       Becomes(divisionChanged(Current, division))
  /\ UNCHANGED <<revision, assembled, positionZ>>

handleTailPinRatioChange ==
  /\ lastRender # "none"
  /\ \E text \in RatioTexts :
       Becomes(tailPinRatioChanged(Current, Number(text)))
  /\ UNCHANGED <<revision, assembled, positionZ>>

reset ==
  /\ lastRender # "none"
  /\ Becomes(resetDone(Current))
  /\ UNCHANGED <<revision, assembled, positionZ>>

onAssembledChange ==
  /\ lastRender # "none"
  /\ \E checked \in BOOLEAN : assembled' = checked
  /\ lastOp' = "onAssembledChange"
  /\ UNCHANGED <<revision, calculator, localStorage, props, pinGroup,
                 tailGroup, positionZ, lastRender>>

\* One animation frame.
loop ==
  /\ positionZ' = animateTailBoard(revision, props, assembled, positionZ)
  /\ lastOp' = "loop"
  /\ UNCHANGED <<revision, calculator, localStorage, props, pinGroup,
                 tailGroup, assembled, lastRender>>

Next ==
  \/ firstUpdated
  \/ handleWorkpieceWidthChange
  \/ handleWorkpieceHeightChange
  \/ handleDivisionChange
  \/ handleTailPinRatioChange
  \/ reset
  \/ onAssembledChange
  \/ loop

Spec == Init /\ [][Next]_vars

\* renderer.setAnimationLoop(this.loop): frames keep coming
FairSpec == Init /\ [][Next]_vars /\ WF_vars(loop)

----------------------------------------------------------------------------
(* Vocabulary of the properties *)

Positive(a) == a[1] > 0

\* width, height and ratio typed into the form are all positive
ValidInput(c) ==
  Positive(c.workpieceWidth) /\ Positive(c.workpieceHeight)
    /\ Positive(c.tailPinRatio)

\* the polygons of a group: its children other than the board
Polygons(group) == SelectSeq(group, LAMBDA m : m.type = "extrude")
Boards(group) == SelectSeq(group, LAMBDA m : m.type = "box")

\* corners of a polygon, by their place in the walk of createPartShape
BottomLeft(m) == m.shape[1]
TopLeft(m) == m.shape[2]
TopRight(m) == m.shape[3]
BottomRight(m) == m.shape[4]

Rendered == lastRender # "none"

----------------------------------------------------------------------------
(* C1: for width, height and ratio > 0 and any division, tailsCount is the  *)
(* floor of (width / height) * divisionFactor, pinsCount = tailsCount + 1   *)
(* and partsCount = pinsCount + tailsCount * tailPinRatio.  The floor and   *)
(* the sum are stated in integers, by cross-multiplication.                 *)
C1_CountsRelated ==
  ValidInput(calculator) =>
    LET w == calculator.workpieceWidth
        h == calculator.workpieceHeight
        f == DIVISION_FACTOR[calculator.division]
        r == calculator.tailPinRatio
        t == tailsCount(calculator)
        parts == partsCount(calculator)
    IN  /\ t * (w[2] * h[1] * f[2]) <= w[1] * h[2] * f[1]
        /\ w[1] * h[2] * f[1] < (t + 1) * (w[2] * h[1] * f[2])
        /\ pinsCount(calculator) = t + 1
        /\ parts[1] * r[2] = (pinsCount(calculator) * r[2] + t * r[1]) * parts[2]

\* a layout with several tails and a fractional ratio has been rendered
C1_Witness ==
  /\ Rendered
  /\ ValidInput(calculator)
  /\ calculator.tailPinRatio = Rat(3, 2)
  /\ calculator.division = "medium"
  /\ tailsCount(calculator) = 3
  /\ props.tailsCount = 3

(* C2: when tailsCount is 0 the build yields exactly one pin polygon, from  *)
(* -width/2 to +width/2, and no tail polygon.                               *)
C2_ZeroTailsOnePin ==
  (Rendered /\ props.tailsCount = 0) =>
    /\ Len(Polygons(tailGroup)) = 0
    /\ Len(Polygons(pinGroup)) = 1
    /\ \A i \in 1..Len(Polygons(pinGroup)) :
         LET pin == Polygons(pinGroup)[i]
             half == RDiv(width(props), RInt(2))
         IN  /\ BottomLeft(pin).x = RNeg(half)
             /\ TopLeft(pin).x = RNeg(half)
             /\ BottomRight(pin).x = half
             /\ TopRight(pin).x = half

(* C3: the tail board's offset is never negative and never greater than    *)
(* depth * 3.                                                               *)
C3_OffsetWithinTarget ==
  /\ RLe(RInt(0), positionZ)
  /\ RLe(positionZ, RMul(depth(props), RInt(3)))

(* C4: a frame in assembled mode leaves the offset unchanged or smaller, a  *)
(* frame in exploded mode leaves it unchanged or larger.                    *)
C4_FrameTowardTarget ==
  [][loop => /\ assembled => RLe(positionZ', positionZ)
             /\ ~assembled => RLe(positionZ, positionZ')]_vars

\* a frame has just run in assembled mode on a board that was exploded
C4_Witness ==
  /\ assembled
  /\ lastOp = "loop"
  /\ RLt(RInt(0), positionZ)

(* C5: with tailsCount >= 1 the widths close over the board:                *)
(* pinsCount * pinWidth + tailsCount * tailWidth = width, the last tail's   *)
(* right mark lies pinWidth before the right edge, and the last tail        *)
(* polygon built from those marks is centred on that mark in the preview.   *)
C5_WidthsClose ==
  (ValidInput(calculator) /\ tailsCount(calculator) >= 1) =>
    LET c == calculator
        t == tailsCount(c)
        lastMark == RAdd(RAdd(RMul(RInt(t - 1), RAdd(pinWidth(c), tailWidth(c))),
                              pinWidth(c)),
                         tailWidth(c))
    IN  /\ RAdd(RMul(RInt(pinsCount(c)), pinWidth(c)),
                RMul(RInt(t), tailWidth(c))) = c.workpieceWidth
        /\ RAdd(lastMark, pinWidth(c)) = c.workpieceWidth
        /\ (Rendered /\ props = PreviewProps(c)) =>
             LET tails == Polygons(tailGroup)
                 tail == tails[Len(tails)]
                 mid == RDiv(RAdd(BottomRight(tail).x, TopRight(tail).x), RInt(2))
             IN  /\ Len(tails) = t
                 /\ RAdd(mid, RDiv(width(props), RInt(2)))
                      = RMul(RSub(c.workpieceWidth, pinWidth(c)), scale)

\* a rendered layout with several tails and a fractional ratio
C5_Witness ==
  /\ Rendered
  /\ ValidInput(calculator)
  /\ props = PreviewProps(calculator)
  /\ calculator.tailPinRatio = Rat(3, 2)
  /\ tailsCount(calculator) = 4
  /\ Len(Polygons(tailGroup)) = 4

(* C6: with the other inputs fixed and positive, tailsCount does not        *)
(* decrease when width grows, does not increase when height grows, and      *)
(* does not increase from fine to medium to coarse.                         *)
C6_TailsCountMonotone ==
  LET c == calculator
      atWidth(w) == tailsCount([c EXCEPT !.workpieceWidth = w])
      atHeight(h) == tailsCount([c EXCEPT !.workpieceHeight = h])
      atDivision(d) == tailsCount([c EXCEPT !.division = d])
  IN  ValidInput(c) =>
        /\ \A w \in Widths :
             /\ RLe(c.workpieceWidth, w) => tailsCount(c) <= atWidth(w)
             /\ RLe(w, c.workpieceWidth) => atWidth(w) <= tailsCount(c)
        /\ \A h \in Heights :
             /\ RLe(c.workpieceHeight, h) => atHeight(h) <= tailsCount(c)
             /\ RLe(h, c.workpieceHeight) => tailsCount(c) <= atHeight(h)
        /\ atDivision("medium") <= atDivision("fine")
        /\ atDivision("coarse") <= atDivision("medium")

\* a rendered layout whose tailsCount moves strictly with each of the three
C6_Witness ==
  LET c == calculator
  IN  /\ Rendered
      /\ ValidInput(c)
      /\ props.tailsCount = tailsCount(c)
      /\ tailsCount([c EXCEPT !.division = "coarse"])
           < tailsCount([c EXCEPT !.division = "medium"])
      /\ tailsCount([c EXCEPT !.division = "medium"])
           < tailsCount([c EXCEPT !.division = "fine"])
      /\ \E w \in Widths :
           RLt(c.workpieceWidth, w)
             /\ tailsCount(c) < tailsCount([c EXCEPT !.workpieceWidth = w])
      /\ \E h \in Heights :
           RLt(c.workpieceHeight, h)
             /\ tailsCount([c EXCEPT !.workpieceHeight = h]) < tailsCount(c)

\* a layout the builder must refuse: tailsCount < 0 or a negative width
Malformed(p) ==
  p.tailsCount < 0 \/ p.pinWidth[1] < 0 \/ p.tailWidth[1] < 0

(* C7: a build from a malformed layout ends as an explicit failure, never   *)
(* as a normal completion.                                                  *)
C7_MalformedLayoutFails ==
  (Rendered /\ Malformed(props)) => lastRender = "failed"

(* C8: after any sequence of rebuilds each group holds exactly one board    *)
(* followed by the polygons of the current property values, and a rebuild   *)
(* with the same inputs leaves both groups as they are.                     *)
C8_RebuildIdempotent ==
  Rendered =>
    LET n == IF props.tailsCount >= 1 THEN props.tailsCount ELSE 0
        fresh == renderWorkpiece(revision, props,
                                 [pinGroup |-> <<>>, tailGroup |-> <<>>])
    IN  /\ props = PreviewProps(calculator)
        /\ Len(Boards(pinGroup)) = 1 /\ pinGroup[1].type = "box"
        /\ Len(Boards(tailGroup)) = 1 /\ tailGroup[1].type = "box"
        /\ Len(Polygons(pinGroup)) = (IF n >= 1 THEN n + 1 ELSE 0)
        /\ Len(Polygons(tailGroup)) = n
        /\ Groups = fresh
        /\ renderWorkpiece(revision, props, Groups) = Groups

\* the workpiece has been rebuilt after the first update, with several tails
C8_Witness ==
  /\ lastOp = "updated"
  /\ props.tailsCount = 3
  /\ Len(pinGroup) = 5
  /\ Len(tailGroup) = 4

(* C9: width 100, height 15, ratio 2: medium gives tailsCount 4,            *)
(* pinsCount 5, partsCount 13, partWidth 100/13; coarse gives tailsCount 3. *)
C9_ConcreteScenario ==
  LET c == calculator
      scenario == /\ c.workpieceWidth = RInt(100)
                  /\ c.workpieceHeight = RInt(15)
                  /\ c.tailPinRatio = RInt(2)
  IN  /\ (scenario /\ c.division = "medium") =>
           /\ tailsCount(c) = 4
           /\ pinsCount(c) = 5
           /\ partsCount(c) = <<13, 1>>
           /\ partWidth(c) = <<100, 13>>
           /\ Rendered => props.tailsCount = 4
      /\ (scenario /\ c.division = "coarse") =>
           /\ tailsCount(c) = 3
           /\ Rendered => props.tailsCount = 3

\* the coarse scenario, reached from the medium one by handleDivisionChange
C9_Witness ==
  /\ calculator = [workpieceWidth |-> RInt(100), workpieceHeight |-> RInt(15),
                   division |-> "coarse", tailPinRatio |-> RInt(2)]
  /\ props.tailsCount = 3
  /\ lastOp = "updated"

(* C10: for a valid layout with tailsCount >= 1 every polygon has           *)
(* bottomLeft.x <= bottomRight.x and topLeft.x <= topRight.x, and its       *)
(* bottom corners lie below its top corners: the walk bottomLeft, topLeft,  *)
(* topRight, bottomRight does not cross itself.                             *)
C10_NoSelfIntersection ==
  (Rendered /\ ValidInput(calculator) /\ props.tailsCount >= 1) =>
    \A group \in {pinGroup, tailGroup} :
      \A i \in 1..Len(Polygons(group)) :
        LET m == Polygons(group)[i]
        IN  /\ RLe(BottomLeft(m).x, BottomRight(m).x)
            /\ RLe(TopLeft(m).x, TopRight(m).x)
            /\ RLt(BottomLeft(m).y, TopLeft(m).y)
            /\ RLt(BottomRight(m).y, TopRight(m).y)

(* C11: for every tail i, the tail's two left corners are the two right     *)
(* corners of the pin emitted before it, and its two right corners are the  *)
(* two left corners of the pin emitted after it (x and y alike).            *)
C11_SharedEdges ==
  (Rendered /\ props.tailsCount >= 1) =>
    LET pins == Polygons(pinGroup)
        tails == Polygons(tailGroup)
    IN  /\ Len(pins) = Len(tails) + 1
        /\ \A i \in 1..Len(tails) :
             /\ BottomLeft(tails[i]) = BottomRight(pins[i])
             /\ TopLeft(tails[i]) = TopRight(pins[i])
             /\ BottomRight(tails[i]) = BottomLeft(pins[i + 1])
             /\ TopRight(tails[i]) = TopLeft(pins[i + 1])

\* a rendered layout of four tails, so with three pins between two tails,
\* whose cornerOffset is not zero
C11_Witness ==
  /\ Rendered
  /\ props.tailsCount = 4
  /\ Len(Polygons(tailGroup)) = 4
  /\ Len(Polygons(pinGroup)) = 5
  /\ Positive(cornerOffset(props))
  /\ BottomRight(Polygons(tailGroup)[2]) = BottomLeft(Polygons(pinGroup)[3])

(* C12: for tailsCount = n >= 1 the loop of the part builder runs exactly n *)
(* times and adds n + 1 pins and n tails; in each of the two sequences the  *)
(* left corners' x grow strictly from one polygon to the next; the closing  *)
(* step runs once, in iteration n - 1; and every pin added has had all four *)
(* corners assigned since the pin before it was added, none left as the     *)
(* placeholder.                                                             *)
C12_LoopCounts ==
  (Rendered /\ props.tailsCount >= 1) =>
    LET n == props.tailsCount
        run == builtPartsTable[revision][props]
        pins == Polygons(pinGroup)
        tails == Polygons(tailGroup)
    IN  /\ pins = run.pinGroup /\ tails = run.tailGroup
        /\ run.iterations = n
        /\ Len(pins) = n + 1 /\ Len(tails) = n
        /\ \A group \in {pins, tails} :
             \A k \in 1..(Len(group) - 1) :
               /\ RLt(BottomLeft(group[k]).x, BottomLeft(group[k + 1]).x)
               /\ RLt(TopLeft(group[k]).x, TopLeft(group[k + 1]).x)
        /\ run.closedAt = <<n - 1>>
        /\ run.pinsOwn = [k \in 1..(n + 1) |-> TRUE]

\* a rendered layout of three tails: the loop has run three times and the
\* closing step has followed two iterations that skipped it
C12_Witness ==
  /\ Rendered
  /\ props.tailsCount = 3
  /\ builtPartsTable[revision][props].iterations = 3
  /\ builtPartsTable[revision][props].closedAt = <<2>>
  /\ Len(Polygons(pinGroup)) = 4

(* C13: for tailsCount >= 1 both left corners of the first pin have         *)
(* x = -width/2, both right corners of the last pin have x = +width/2, and  *)
(* no corner of any pin or tail polygon has x outside [-width/2, +width/2]. *)
C13_WithinBoardEdges ==
  (Rendered /\ ValidInput(calculator) /\ props.tailsCount >= 1) =>
    LET half == RDiv(width(props), RInt(2))
        pins == Polygons(pinGroup)
    IN  /\ BottomLeft(pins[1]).x = RNeg(half)
        /\ TopLeft(pins[1]).x = RNeg(half)
        /\ BottomRight(pins[Len(pins)]).x = half
        /\ TopRight(pins[Len(pins)]).x = half
        /\ \A group \in {pinGroup, tailGroup} :
             \A i \in 1..Len(Polygons(group)) :
               \A k \in 1..4 :
                 /\ RLe(RNeg(half), Polygons(group)[i].shape[k].x)
                 /\ RLe(Polygons(group)[i].shape[k].x, half)

\* x at which the segment from a to b meets the horizontal line at height y
CrossingX(a, b, y) ==
  RAdd(a.x, RMul(RSub(b.x, a.x), RDiv(RSub(y, a.y), RSub(b.y, a.y))))

(* C14: for every valid input tailMarkOffset = tailWidth / 10, and each     *)
(* triangle of the flat diagram (apex at y = 0 above the tail's centre,     *)
(* base corners at y = 3 * height) crosses the pin board's centre line      *)
(* y = 2.5 * height at the tail's two marks base + pinWidth and             *)
(* base + pinWidth + tailWidth.                                             *)
C14_TriangleThroughMarks ==
  ValidInput(calculator) =>
    LET c == calculator
        centreLine == RMul(Rat(5, 2), c.workpieceHeight)
        triangles == renderTails(c)
    IN  /\ tailMarkOffset(c) = RDiv(tailWidth(c), RInt(10))
        /\ \A k \in 1..Len(triangles) :
             LET base == RMul(RInt(k - 1), RAdd(pinWidth(c), tailWidth(c)))
                 t == triangles[k]
             IN  /\ t.apex.y = RInt(0)
                 /\ t.left.y = RMul(RInt(3), c.workpieceHeight)
                 /\ t.right.y = RMul(RInt(3), c.workpieceHeight)
                 /\ t.apex.x = RAdd(RAdd(base, pinWidth(c)),
                                    RDiv(tailWidth(c), RInt(2)))
                 /\ CrossingX(t.apex, t.left, centreLine)
                      = RAdd(base, pinWidth(c))
                 /\ CrossingX(t.apex, t.right, centreLine)
                      = RAdd(RAdd(base, pinWidth(c)), tailWidth(c))

\* a layout of three tails drawn for a height and a ratio other than the
\* defaults
C14_Witness ==
  /\ Rendered
  /\ ValidInput(calculator)
  /\ calculator.workpieceHeight = Rat(25, 2)
  /\ calculator.tailPinRatio = Rat(3, 2)
  /\ Len(renderTails(calculator)) = 3
  /\ Positive(tailMarkOffset(calculator))

\* the four parameters, each stored under the key of its own name
Parameters ==
  {WORKPIECE_WIDTH_KEY, WORKPIECE_HEIGHT_KEY, DIVISION_KEY, TAIL_PIN_RATIO_KEY}

\* the string form of a parameter's value in memory
StringForm(c, parameter) ==
  IF parameter = DIVISION_KEY THEN c.division ELSE String(c[parameter])

\* the parameter is stored, as the string form of its value in memory
StoredAsHeld(c, storage, parameter) ==
  parameter \in DOMAIN storage /\ storage[parameter] = StringForm(c, parameter)

\* a step that stores the parameter and leaves the other three, and what is
\* stored for them, as they were
StoresOnly(parameter) ==
  /\ StoredAsHeld(calculator', localStorage', parameter)
  /\ \A other \in Parameters \ {parameter} :
       /\ calculator'[other] = calculator[other]
       /\ (other \in DOMAIN localStorage') = (other \in DOMAIN localStorage)
       /\ other \in DOMAIN localStorage =>
            localStorage'[other] = localStorage[other]

\* the calculator and the stored items after a step
After == [calculator |-> calculator', localStorage |-> localStorage']

(* C15: every parameter that is stored is stored as the string form of its  *)
(* value in memory; each of the four handlers stores its own parameter and  *)
(* leaves the other three and their stored values unchanged; after reset    *)
(* the four values in memory are 100, 15, medium, 2 and the four stored     *)
(* values are "100", "15", "medium", "2".  A step is taken as a handler's   *)
(* by what it does to the calculator and to the stored items.               *)
C15_StoredAndFramed ==
  /\ [](\A parameter \in DOMAIN localStorage :
          StoredAsHeld(calculator, localStorage, parameter))
  /\ [][/\ (\E text \in WidthTexts :
              After = workpieceWidthChanged(Current, Number(text)))
             => StoresOnly(WORKPIECE_WIDTH_KEY)
        /\ (\E text \in HeightTexts :
              After = workpieceHeightChanged(Current, Number(text)))
             => StoresOnly(WORKPIECE_HEIGHT_KEY)
        /\ (\E division \in Division :
              After = divisionChanged(Current, division))
             => StoresOnly(DIVISION_KEY)
        /\ (\E text \in RatioTexts :
              After = tailPinRatioChanged(Current, Number(text)))
             => StoresOnly(TAIL_PIN_RATIO_KEY)
        /\ After = resetDone(Current) =>
             /\ calculator' = [workpieceWidth |-> <<100, 1>>,
                               workpieceHeight |-> <<15, 1>>,
                               division |-> "medium",
                               tailPinRatio |-> <<2, 1>>]
             /\ localStorage' = [workpieceWidth |-> <<"1", "0", "0">>,
                                 workpieceHeight |-> <<"1", "5">>,
                                 division |-> "medium",
                                 tailPinRatio |-> <<"2">>]]_vars

\* the preview has been rebuilt by a step that left all four parameters at
\* their defaults and stored, after a visit that began with other values
C15_Witness ==
  /\ lastOp = "updated"
  /\ calculator = [workpieceWidth |-> <<100, 1>>, workpieceHeight |-> <<15, 1>>,
                   division |-> "medium", tailPinRatio |-> <<2, 1>>]
  /\ DOMAIN localStorage = Parameters
  /\ localStorage[WORKPIECE_WIDTH_KEY] = <<"1", "0", "0">>
  /\ localStorage[WORKPIECE_HEIGHT_KEY] = <<"1", "5">>
  /\ localStorage[DIVISION_KEY] = "medium"
  /\ localStorage[TAIL_PIN_RATIO_KEY] = <<"2">>

\* the offset at which the exploding board stops: depth * 3 in part_000,
\* depth * 2 in the earlier revision
ExplodedTarget == RMul(depth(props), explodedFactor(revision))

OffsetIsZero == positionZ = RInt(0)

OffsetAtTarget == RLe(ExplodedTarget, positionZ)

ExplodedAtTarget == ~assembled /\ OffsetAtTarget

DepthStays == depth(props') = depth(props)

(* C16: with frames scheduled fairly, if the mode stays assembled the       *)
(* offset eventually is 0 and stays 0; if the mode stays exploded and the   *)
(* depth stays the same the offset eventually is at least the exploded      *)
(* target and from then on does not change.  A step that is not a frame     *)
(* leaves the offset as it is, and a frame moves it by at most              *)
(* animationSpeed.                                                          *)
C16_OffsetSettles ==
  /\ <>[]assembled => <>[]OffsetIsZero
  /\ (<>[]~assembled /\ <>[][DepthStays]_vars) => <>[]ExplodedAtTarget
  /\ [][/\ (~assembled /\ ~assembled' /\ DepthStays /\ OffsetAtTarget)
             => positionZ' = positionZ
        /\ positionZ' # positionZ => loop
        /\ RLe(RSub(positionZ', positionZ), animationSpeed(revision))
        /\ RLe(RSub(positionZ, positionZ'), animationSpeed(revision))]_vars

\* a frame has run in exploded mode with the board at or past its target,
\* on a rendered workpiece
C16_Witness ==
  /\ Rendered
  /\ ~assembled
  /\ lastOp = "loop"
  /\ Positive(depth(props))
  /\ OffsetAtTarget

====
